---- MODULE Spec2Model ----
(***************************************************************************)
(* Model of csm_offline: the Workbench adapter and the multi-surface to   *)
(* volume projection (workbench.py), and the clipped cosine similarity    *)
(* (io.py).                                                                *)
(*                                                                         *)
(* A string is a sequence of atoms; the atom SP is one blank.  A path is a *)
(* string, an argv is a sequence of strings.  The file system is a        *)
(* function from the existing paths to a content tag: 0 for a file that   *)
(* was there before the program started, k > 0 for a file written by an   *)
(* external process during the k-th top-level call.                       *)
(***************************************************************************)
EXTENDS Integers, Sequences, FiniteSets, TLC

(* ------------------------------ bounds --------------------------------- *)
MaxN == 2
MaxCalls == 2
MaxRows == 2
MaxSeeds == 1
MaxWeights == 4

(* ------------------------------ strings -------------------------------- *)
SP == " "

RECURSIVE Join(_, _)
\* sep.join(parts)
Join(parts, sep) ==
    IF parts = <<>> THEN <<>>
    ELSE IF Len(parts) = 1 THEN Head(parts)
    ELSE Head(parts) \o sep \o Join(Tail(parts), sep)

RECURSIVE SplitFrom(_, _, _)
SplitFrom(s, cur, acc) ==
    IF s = <<>> THEN IF cur = <<>> THEN acc ELSE Append(acc, cur)
    ELSE IF Head(s) = SP
         THEN SplitFrom(Tail(s), <<>>, IF cur = <<>> THEN acc ELSE Append(acc, cur))
         ELSE SplitFrom(Tail(s), Append(cur, Head(s)), acc)

\* str.split(): the maximal runs of non-blank atoms
Split(s) == SplitFrom(s, <<>>, <<>>)

RECURSIVE Flatten(_)
Flatten(ss) == IF ss = <<>> THEN <<>> ELSE Head(ss) \o Flatten(Tail(ss))

XName(i) == <<"x" \o ToString(i)>>

(* ------------------------------- paths --------------------------------- *)
MetricPath(i) == <<"metric_" \o ToString(i)>>
SurfacePath(i) == <<"surface_" \o ToString(i)>>
VolumeSpacePath == <<"volume_space">>
OutPaths == {<<"volume_out_a">>, <<"volume_out_b">>}
\* the output path that may hold a file before the program starts
OldOutPaths == {<<"volume_out_a">>}

\* tempfile.gettempdir(): the value of TMPDIR, which may hold a blank
TmpBases == {<<"/tmp">>, <<"/scratch", SP, "dir">>}
TmpNames == {"tmpa", "tmpb"}
TempDirPath(base, name) == base \o <<"/", name>>

\* pathlib.Path(temp_dir) / f"volume_{index}.nii.gz"
VolumeFile(temp_dir, index) == temp_dir \o <<"/", "volume_" \o ToString(index) \o ".nii.gz">>

IsPrefix(p, q) == Len(p) <= Len(q) /\ SubSeq(q, 1, Len(p)) = p

InputPaths == {MetricPath(i) : i \in 0..(MaxN - 1)} \cup {SurfacePath(i) : i \in 0..(MaxN - 1)}
                 \cup {VolumeSpacePath}

(* --------------------------- command lines ----------------------------- *)
Distance == <<"3.0">>

\* "({}) / {}".format(" + ".join(f"x{i}" for i in range(n)), n)
AverageExpression(n) ==
    <<"(">> \o Join([i \in 1..n |-> XName(i - 1)], <<SP, "+", SP>>) \o <<")", SP, "/", SP, ToString(n)>>

ProbeCommand(executable) == <<executable, <<"-version">>>>

SurfaceToVolumeCommand(executable, metric, surface, volume_space, volume_out, distance) ==
    <<executable, <<"-metric-to-volume-mapping">>, metric, surface, volume_space, volume_out,
      <<"-nearest-vertex">>, distance>>

\* [f"-var x{i} {volume_file}" for i, volume_file in enumerate(volume_files)]
VolumeFilesArg(volume_files) ==
    [i \in 1..Len(volume_files) |-> <<"-var", SP>> \o XName(i - 1) \o <<SP>> \o volume_files[i]]

\* " ".join(volume_files_arg).split()
VolumeFilesArgList(volume_files) == Split(Join(VolumeFilesArg(volume_files), <<SP>>))

VolumeMathCommand(executable, expression, volume_out, volume_files) ==
    <<executable, <<"-volume-math">>, expression, volume_out>> \o VolumeFilesArgList(volume_files)

Executable == <<"wb_command">>

\* the path an external command writes: the fourth argument of
\* -metric-to-volume-mapping, the second of -volume-math, none for -version
OutputOf(command) ==
    IF command[2] = <<"-metric-to-volume-mapping">> THEN <<command[6]>>
    ELSE IF command[2] = <<"-volume-math">> THEN <<command[4]>>
    ELSE <<>>

(* ------------------------------- state --------------------------------- *)
VARIABLES
    fs,        \* the existing files: path -> content tag
    tmpdirs,   \* the existing temporary directories
    exe,       \* what settings.WORKBENCH_PATH points at
    tmpbase,   \* tempfile.gettempdir()
    wb,        \* TRUE once the caller holds a constructed Workbench
    ncalls,    \* number of top-level calls started so far
    op,        \* the top-level call: "none", "multi", "ctor", "s2v", "vmath"
    pc,        \* position inside the call
    result,    \* "none", "running", "ok" or the name of the raised exception
    trace,     \* the log records, process runs and temp-dir events of the call
    args,      \* arguments of multi_surface_to_volume
    temp_dir,  \* multi_surface_to_volume: temp_dir (<<>> outside the with block)
    index,     \* multi_surface_to_volume: index
    volume_files, \* multi_surface_to_volume: volume_files
    frame,     \* arguments of the adapter method being executed
    checked,   \* the paths that existed when the adapter method checked its preconditions
    out_at_call \* content tag of args.volume_out when the call started, -1 if absent

wbvars == <<fs, tmpdirs, exe, tmpbase, wb, ncalls, op, pc, result, trace, args,
            temp_dir, index, volume_files, frame, checked, out_at_call>>

NoArgs == [metrics |-> <<>>, surfaces |-> <<>>, volume_space |-> <<>>, volume_out |-> <<>>]
NoFrame == [metric |-> <<>>, surface |-> <<>>, volume_space |-> <<>>, volume_out |-> <<>>,
            expression |-> <<>>, volume_files |-> <<>>]

Event(t, msg, text, argv) == [t |-> t, msg |-> msg, text |-> text, argv |-> argv]
\* logger.exception(message)
LogError(msg, text) == Event("error", msg, text, <<>>)
\* logger.info(...)
LogInfo(msg, text) == Event("info", msg, text, <<>>)
\* subprocess.run(command, check=True), with the way the process ended
Run(command, outcome) == Event("run", outcome, <<>>, command)

Exists(file) == file \in DOMAIN fs

\* exit outcomes of subprocess.run on the executable: a command that starts
\* exits with status zero or non-zero, a missing executable raises OSError
\* (FileNotFoundError) out of subprocess.run
Outcomes(e) == IF e = "missing" THEN {"oserror"} ELSE {"zero", "nonzero"}

\* what a started process may leave at its output path: Workbench writes it
\* on success and may leave a partial file on failure; another binary writes
\* nothing
MayWrite(e, outcome) ==
    IF e = "workbench" THEN (IF outcome = "zero" THEN {TRUE} ELSE {TRUE, FALSE})
    ELSE {FALSE}

WriteFile(file) == (file :> ncalls) @@ fs

\* variant: an exception skips the exit of the with block
Raise_NoCleanup(e) ==
    /\ result' = e
    /\ pc' = "returned"

\* an exception leaves the call; inside the with block it first runs the
\* exit of tempfile.TemporaryDirectory
Raise(e) ==
    /\ result' = e
    /\ pc' = IF op = "multi" /\ temp_dir # <<>> THEN "exit_with" ELSE "returned"

WbInit ==
    /\ \E present \in SUBSET (InputPaths \cup OldOutPaths) : fs = [f \in present |-> 0]
    /\ tmpdirs = {}
    /\ exe \in {"workbench", "wrong_binary", "missing"}
    /\ tmpbase \in TmpBases
    /\ wb = FALSE
    /\ ncalls = 0
    /\ op = "none"
    /\ pc = "returned"
    /\ result = "none"
    /\ trace = <<>>
    /\ args = NoArgs
    /\ temp_dir = <<>>
    /\ index = 0
    /\ volume_files = <<>>
    /\ frame = NoFrame
    /\ checked = {}
    /\ out_at_call = -1

(* --------------------------- top-level calls --------------------------- *)
TagOf(file) == IF Exists(file) THEN fs[file] ELSE -1

StartCall(o, p, out) ==
    /\ pc = "returned"
    /\ op = "none"
    /\ out_at_call' = TagOf(out)
    /\ ncalls < MaxCalls
    /\ ncalls' = ncalls + 1
    /\ op' = o
    /\ pc' = p
    /\ result' = "running"
    /\ trace' = <<>>
    /\ temp_dir' = <<>>
    /\ index' = 0
    /\ volume_files' = <<>>
    /\ checked' = {}
    /\ UNCHANGED <<fs, tmpdirs, exe, tmpbase, wb>>

\* multi_surface_to_volume(metrics, surfaces, volume_space, volume_out)
CallMulti(nm, ns, out) ==
    /\ StartCall("multi", "len_check", out)
    /\ args' = [metrics |-> [i \in 1..nm |-> MetricPath(i - 1)],
                surfaces |-> [i \in 1..ns |-> SurfacePath(i - 1)],
                volume_space |-> VolumeSpacePath,
                volume_out |-> out]
    /\ frame' = NoFrame

\* Workbench()
CallCtor ==
    /\ StartCall("ctor", "probe", <<>>)
    /\ args' = NoArgs
    /\ frame' = NoFrame

\* wb.surface_to_volume(metric, surface, volume_space, volume_out)
CallSurfaceToVolume(i, out) ==
    /\ wb
    /\ StartCall("s2v", "s2v_check", out)
    /\ args' = NoArgs
    /\ frame' = [NoFrame EXCEPT !.metric = MetricPath(i), !.surface = SurfacePath(i),
                                !.volume_space = VolumeSpacePath, !.volume_out = out]

\* wb.volume_math(expression, volume_out, volume_files)
CallVolumeMath(n, out) ==
    /\ wb
    /\ StartCall("vmath", "vm_check", out)
    /\ args' = NoArgs
    /\ frame' = [NoFrame EXCEPT !.expression = AverageExpression(n), !.volume_out = out,
                                !.volume_files = [i \in 1..n |-> MetricPath(i - 1)]]

\* the caller goes on after the call: the call's arguments, locals and
\* result are dropped, the files and the constructed Workbench stay
Return ==
    /\ pc = "returned"
    /\ op # "none"
    /\ op' = "none"
    /\ result' = "none"
    /\ trace' = <<>>
    /\ args' = NoArgs
    /\ frame' = NoFrame
    /\ index' = 0
    /\ volume_files' = <<>>
    /\ checked' = {}
    /\ out_at_call' = -1
    /\ UNCHANGED <<fs, tmpdirs, exe, tmpbase, wb, ncalls, pc, temp_dir>>

(* ------------------------ multi_surface_to_volume ---------------------- *)
\* variant: the length check is missing
LenCheck_NoCheck ==
    /\ pc = "len_check"
    /\ pc' = "probe"
    /\ UNCHANGED <<fs, tmpdirs, exe, tmpbase, wb, ncalls, op, result, trace, args, temp_dir,
                   index, volume_files, frame, checked, out_at_call>>

\* the length check, then volume_files = []
LenCheck ==
    /\ pc = "len_check"
    /\ IF Len(args.metrics) # Len(args.surfaces)
       THEN /\ trace' = Append(trace, LogError("The number of metrics and surfaces must be equal.", <<>>))
            /\ Raise("ValueError")
       ELSE /\ trace' = trace
            /\ pc' = "probe"
            /\ result' = result
    /\ UNCHANGED <<fs, tmpdirs, exe, tmpbase, wb, ncalls, op, args, temp_dir, index,
                   volume_files, frame, checked, out_at_call>>

\* Workbench.__init__ with _is_workbench_available and _logged_subprocess_run
Probe ==
    /\ pc = "probe"
    /\ \E outcome \in Outcomes(exe) :
         LET command == ProbeCommand(Executable)
             ran == trace \o <<LogInfo("Running command", Join(command, <<SP>>)),
                               Run(command, outcome)>>
         IN  CASE outcome = "zero" ->
                    /\ trace' = ran
                    /\ IF op = "ctor"
                       THEN /\ wb' = TRUE
                            /\ result' = "ok"
                            /\ pc' = "returned"
                       ELSE /\ wb' = wb
                            /\ result' = result
                            /\ pc' = "mkdtemp"
              [] outcome = "nonzero" ->
                    /\ trace' = Append(ran, LogError("Workbench not available.", <<>>))
                    /\ wb' = wb
                    /\ Raise("RuntimeError")
              [] outcome = "oserror" ->
                    /\ trace' = ran
                    /\ wb' = wb
                    /\ Raise("OSError")
    /\ UNCHANGED <<fs, tmpdirs, exe, tmpbase, ncalls, op, args, temp_dir, index,
                   volume_files, frame, checked, out_at_call>>

\* variant: the directory name is taken without the exclusive creation
MkTemp_NotExclusive ==
    /\ pc = "mkdtemp"
    /\ \E name \in TmpNames :
         LET d == TempDirPath(tmpbase, name)
         IN  /\ tmpdirs' = tmpdirs \cup {d}
             /\ temp_dir' = d
             /\ trace' = Append(trace, Event("mkdtemp", "", d, <<>>))
    /\ pc' = "loop"
    /\ UNCHANGED <<fs, exe, tmpbase, wb, ncalls, op, result, args, index, volume_files,
                   frame, checked, out_at_call>>

\* with tempfile.TemporaryDirectory() as temp_dir: a fresh, empty directory
MkTemp ==
    /\ pc = "mkdtemp"
    /\ \E name \in TmpNames :
         LET d == TempDirPath(tmpbase, name)
         IN  /\ d \notin tmpdirs
             /\ tmpdirs' = tmpdirs \cup {d}
             /\ temp_dir' = d
             /\ trace' = Append(trace, Event("mkdtemp", "", d, <<>>))
    /\ pc' = "loop"
    /\ UNCHANGED <<fs, exe, tmpbase, wb, ncalls, op, result, args, index, volume_files,
                   frame, checked, out_at_call>>

\* variant: the surfaces are taken from the end
Loop_ReversedSurfaces ==
    /\ pc = "loop"
    /\ IF index < Len(args.metrics)
       THEN /\ frame' = [NoFrame EXCEPT !.metric = args.metrics[index + 1],
                                        !.surface = args.surfaces[Len(args.surfaces) - index],
                                        !.volume_space = args.volume_space,
                                        !.volume_out = VolumeFile(temp_dir, index)]
            /\ pc' = "s2v_check"
       ELSE /\ frame' = [NoFrame EXCEPT !.expression = AverageExpression(Len(volume_files)),
                                        !.volume_out = args.volume_out,
                                        !.volume_files = volume_files]
            /\ pc' = "vm_check"
    /\ UNCHANGED <<fs, tmpdirs, exe, tmpbase, wb, ncalls, op, result, trace, args, temp_dir,
                   index, volume_files, checked, out_at_call>>

\* variant: every intermediate volume gets the same file name
Loop_SameVolumeName ==
    /\ pc = "loop"
    /\ IF index < Len(args.metrics)
       THEN /\ frame' = [NoFrame EXCEPT !.metric = args.metrics[index + 1],
                                        !.surface = args.surfaces[index + 1],
                                        !.volume_space = args.volume_space,
                                        !.volume_out = VolumeFile(temp_dir, 0)]
            /\ pc' = "s2v_check"
       ELSE /\ frame' = [NoFrame EXCEPT !.expression = AverageExpression(Len(volume_files)),
                                        !.volume_out = args.volume_out,
                                        !.volume_files = volume_files]
            /\ pc' = "vm_check"
    /\ UNCHANGED <<fs, tmpdirs, exe, tmpbase, wb, ncalls, op, result, trace, args, temp_dir,
                   index, volume_files, checked, out_at_call>>

\* the loop head: the next surface_to_volume call, or after the loop the
\* volume_math call on the average expression
Loop ==
    /\ pc = "loop"
    /\ IF index < Len(args.metrics)
       THEN /\ frame' = [NoFrame EXCEPT !.metric = args.metrics[index + 1],
                                        !.surface = args.surfaces[index + 1],
                                        !.volume_space = args.volume_space,
                                        !.volume_out = VolumeFile(temp_dir, index)]
            /\ pc' = "s2v_check"
       ELSE /\ frame' = [NoFrame EXCEPT !.expression = AverageExpression(Len(volume_files)),
                                        !.volume_out = args.volume_out,
                                        !.volume_files = volume_files]
            /\ pc' = "vm_check"
    /\ UNCHANGED <<fs, tmpdirs, exe, tmpbase, wb, ncalls, op, result, trace, args, temp_dir,
                   index, volume_files, checked, out_at_call>>

\* leaving the with block, normally or by an exception: the directory and
\* everything in it is removed
ExitWith ==
    /\ pc = "exit_with"
    /\ fs' = [f \in {g \in DOMAIN fs : ~IsPrefix(temp_dir, g)} |-> fs[f]]
    /\ tmpdirs' = tmpdirs \ {temp_dir}
    /\ trace' = Append(trace, Event("rmtree", "", temp_dir, <<>>))
    /\ temp_dir' = <<>>
    /\ pc' = "returned"
    /\ UNCHANGED <<exe, tmpbase, wb, ncalls, op, result, args, index, volume_files, frame,
                   checked, out_at_call>>

(* ------------------------------ Workbench ------------------------------ *)
\* variant: the output-must-not-exist check is missing
SurfaceToVolumeFailure_NoExistsCheck(f) ==
    IF ~Exists(f.metric) THEN <<"FileNotFoundError", f.metric>>
    ELSE IF ~Exists(f.surface) THEN <<"FileNotFoundError", f.surface>>
    ELSE IF ~Exists(f.volume_space) THEN <<"FileNotFoundError", f.volume_space>>
    ELSE <<"none", <<>>>>

\* variant: the surface is checked before the metric
SurfaceToVolumeFailure_SurfaceFirst(f) ==
    IF ~Exists(f.surface) THEN <<"FileNotFoundError", f.surface>>
    ELSE IF ~Exists(f.metric) THEN <<"FileNotFoundError", f.metric>>
    ELSE IF ~Exists(f.volume_space) THEN <<"FileNotFoundError", f.volume_space>>
    ELSE IF Exists(f.volume_out) THEN <<"FileExistsError", f.volume_out>>
    ELSE <<"none", <<>>>>

\* _raise_error_if_file_does_not_exist / _raise_error_if_file_exists, in the
\* order surface_to_volume applies them: the first failing check, or none
SurfaceToVolumeFailure(f) ==
    IF ~Exists(f.metric) THEN <<"FileNotFoundError", f.metric>>
    ELSE IF ~Exists(f.surface) THEN <<"FileNotFoundError", f.surface>>
    ELSE IF ~Exists(f.volume_space) THEN <<"FileNotFoundError", f.volume_space>>
    ELSE IF Exists(f.volume_out) THEN <<"FileExistsError", f.volume_out>>
    ELSE <<"none", <<>>>>

\* Workbench.surface_to_volume up to the process call
SurfaceToVolumeCheck ==
    /\ pc = "s2v_check"
    /\ checked' = DOMAIN fs
    /\ LET failure == SurfaceToVolumeFailure(frame)
           entered == Append(trace, LogInfo("Converting surface to volume", frame.surface))
       IN  IF failure[1] # "none"
           THEN /\ trace' = Append(entered, LogError(failure[1], failure[2]))
                /\ Raise(failure[1])
           ELSE /\ trace' = entered
                /\ pc' = "s2v_run"
                /\ result' = result
    /\ UNCHANGED <<fs, tmpdirs, exe, tmpbase, wb, ncalls, op, args, temp_dir, index,
                   volume_files, frame, out_at_call>>

\* variant: the exit status is not checked (check=False)
RunCommand_IgnoreExit(command, next_pc) ==
    \E outcome \in Outcomes(exe) : \E wrote \in MayWrite(exe, outcome) :
        /\ trace' = trace \o <<LogInfo("Running command", Join(command, <<SP>>)),
                                Run(command, outcome)>>
        /\ fs' = IF wrote THEN WriteFile(OutputOf(command)[1]) ELSE fs
        /\ IF op = "multi"
           THEN pc' = next_pc /\ result' = (IF next_pc = "exit_with" THEN "ok" ELSE result)
           ELSE pc' = "returned" /\ result' = "ok"

\* variant: the command line is logged after the process has run
RunCommand_LogAfter(command, next_pc) ==
    \E outcome \in Outcomes(exe) : \E wrote \in MayWrite(exe, outcome) :
        /\ trace' = trace \o <<Run(command, outcome),
                                LogInfo("Running command", Join(command, <<SP>>))>>
        /\ fs' = IF wrote THEN WriteFile(OutputOf(command)[1]) ELSE fs
        /\ CASE outcome = "zero" ->
                  IF op = "multi"
                  THEN pc' = next_pc /\ result' = (IF next_pc = "exit_with" THEN "ok" ELSE result)
                  ELSE pc' = "returned" /\ result' = "ok"
             [] outcome = "nonzero" -> Raise("CalledProcessError")
             [] outcome = "oserror" -> Raise("OSError")

\* the external process of an adapter method: _logged_subprocess_run(command)
RunCommand(command, next_pc) ==
    \E outcome \in Outcomes(exe) : \E wrote \in MayWrite(exe, outcome) :
        /\ trace' = trace \o <<LogInfo("Running command", Join(command, <<SP>>)),
                                Run(command, outcome)>>
        /\ fs' = IF wrote THEN WriteFile(OutputOf(command)[1]) ELSE fs
        /\ CASE outcome = "zero" ->
                  IF op = "multi"
                  THEN pc' = next_pc /\ result' = (IF next_pc = "exit_with" THEN "ok" ELSE result)
                  ELSE pc' = "returned" /\ result' = "ok"
             [] outcome = "nonzero" -> Raise("CalledProcessError")
             [] outcome = "oserror" -> Raise("OSError")

\* Workbench.surface_to_volume: the process call; back in the loop of
\* multi_surface_to_volume the volume file is appended
SurfaceToVolumeRun ==
    /\ pc = "s2v_run"
    /\ RunCommand(SurfaceToVolumeCommand(Executable, frame.metric, frame.surface,
                                         frame.volume_space, frame.volume_out, Distance), "loop")
    /\ IF op = "multi" /\ pc' = "loop"
       THEN volume_files' = Append(volume_files, frame.volume_out) /\ index' = index + 1
       ELSE UNCHANGED <<volume_files, index>>
    /\ UNCHANGED <<tmpdirs, exe, tmpbase, wb, ncalls, op, args, temp_dir, frame, checked,
                   out_at_call>>

\* variant: the output-must-not-exist check is missing
VolumeMathCheck_NoExistsCheck ==
    /\ pc = "vm_check"
    /\ checked' = DOMAIN fs
    /\ trace' = Append(trace, LogInfo("Performing math on volumes", Flatten(frame.volume_files)))
    /\ pc' = "vm_run"
    /\ UNCHANGED <<fs, tmpdirs, exe, tmpbase, wb, ncalls, op, result, args, temp_dir, index,
                   volume_files, frame, out_at_call>>

\* Workbench.volume_math up to the process call
VolumeMathCheck ==
    /\ pc = "vm_check"
    /\ checked' = DOMAIN fs
    /\ LET entered == Append(trace, LogInfo("Performing math on volumes", Flatten(frame.volume_files)))
       IN  IF Exists(frame.volume_out)
           THEN /\ trace' = Append(entered, LogError("FileExistsError", frame.volume_out))
                /\ Raise("FileExistsError")
           ELSE /\ trace' = entered
                /\ pc' = "vm_run"
                /\ result' = result
    /\ UNCHANGED <<fs, tmpdirs, exe, tmpbase, wb, ncalls, op, args, temp_dir, index,
                   volume_files, frame, out_at_call>>

\* Workbench.volume_math: the process call
VolumeMathRun ==
    /\ pc = "vm_run"
    /\ RunCommand(VolumeMathCommand(Executable, frame.expression, frame.volume_out,
                                    frame.volume_files), "exit_with")
    /\ UNCHANGED <<tmpdirs, exe, tmpbase, wb, ncalls, op, args, temp_dir, index, volume_files,
                   frame, checked, out_at_call>>

WbNext ==
    \/ \E nm \in 0..MaxN, ns \in 0..MaxN, out \in OutPaths : CallMulti(nm, ns, out)
    \/ CallCtor
    \/ \E i \in 0..(MaxN - 1), out \in OutPaths : CallSurfaceToVolume(i, out)
    \/ \E n \in 0..MaxN, out \in OutPaths : CallVolumeMath(n, out)
    \/ Return
    \/ LenCheck
    \/ Probe
    \/ MkTemp
    \/ Loop
    \/ ExitWith
    \/ SurfaceToVolumeCheck
    \/ SurfaceToVolumeRun
    \/ VolumeMathCheck
    \/ VolumeMathRun

(* --------------------------- cosine similarity ------------------------- *)
(* A feature vector is a tuple of integers.  A similarity entry is a record *)
(* with k = "cos": the real number num / sqrt(uu * vv), uu * vv > 0;        *)
(*      k = "nan": not a number;                                            *)
(*      k = "lit": the decimal num / 10000.                                 *)
VARIABLES
    seed_features,    \* rows of the seed matrix
    target_features,  \* rows of the target matrix
    cosine_similarity \* the returned matrix, <<>> before the call

simvars == <<seed_features, target_features, cosine_similarity>>

Vectors == {<<0, 0>>, <<1, 0>>, <<-1, 0>>, <<0, 1>>, <<1, 1>>, <<70, 1>>, <<71, 1>>}

Threshold == 9999
Scale == 10000

RECURSIVE RatLess(_, _, _, _)
\* a/b < c/d for a, c >= 0 and b, d > 0, by the Euclidean expansion
RatLess(a, b, c, d) ==
    LET qa == a \div b
        qc == c \div d
        ra == a % b
        rc == c % d
    IN  IF qa # qc THEN qa < qc
        ELSE IF rc = 0 THEN FALSE
        ELSE IF ra = 0 THEN TRUE
        ELSE RatLess(d, rc, b, ra)

Dot(u, v) == LET RECURSIVE Sum(_)
                 Sum(i) == IF i = 0 THEN 0 ELSE u[i] * v[i] + Sum(i - 1)
             IN  Sum(Len(u))

Cos(num, uu, vv) == [k |-> "cos", num |-> num, uu |-> uu, vv |-> vv]
NaN == [k |-> "nan", num |-> 0, uu |-> 0, vv |-> 0]
Lit(num) == [k |-> "lit", num |-> num, uu |-> 0, vv |-> 0]

\* np.dot(u, v) / (norm(u) * norm(v)): 0/0 is not a number
Cosine(u, v) ==
    IF Dot(u, u) = 0 \/ Dot(v, v) = 0 THEN NaN ELSE Cos(Dot(u, v), Dot(u, u), Dot(v, v))

\* |x| > t / Scale; every comparison with not-a-number is false
MagnitudeAbove(x, t) ==
    CASE x.k = "nan" -> FALSE
      [] x.k = "lit" -> (IF x.num < 0 THEN -x.num ELSE x.num) > t
      [] x.k = "cos" -> RatLess(t * t, Scale * Scale, x.num * x.num, x.uu * x.vv)

\* x > t / Scale
Above(x, t) == x.k # "nan" /\ x.num > 0 /\ MagnitudeAbove(x, t)
\* x < -t / Scale
Below(x, t) == x.k # "nan" /\ x.num < 0 /\ MagnitudeAbove(x, t)

\* variant: only an entry above 1 is clipped
ClipAbove_AtOne(x) == IF Above(x, Scale) THEN Lit(Threshold) ELSE x

\* cosine_similarity[cosine_similarity > threshold] = threshold
ClipAbove(x) == IF Above(x, Threshold) THEN Lit(Threshold) ELSE x
\* cosine_similarity[cosine_similarity < -threshold] = -threshold
ClipBelow(x) == IF Below(x, Threshold) THEN Lit(-Threshold) ELSE x
\* variant: not-a-number is left in the matrix
NanToZero_Skip(x) == x

\* cosine_similarity[np.isnan(cosine_similarity)] = 0
NanToZero(x) == IF x.k = "nan" THEN Lit(0) ELSE x

\* the unclipped matrix: one row per seed row, one column per target row
Unclipped(seed, target) ==
    [i \in DOMAIN seed |-> [j \in DOMAIN target |-> Cosine(seed[i], target[j])]]

\* _cosine_similarity(seed_features, target_features)
CosineSimilarity(seed, target) ==
    LET c0 == Unclipped(seed, target)
        c1 == [i \in DOMAIN c0 |-> [j \in DOMAIN c0[i] |-> ClipAbove(c0[i][j])]]
        c2 == [i \in DOMAIN c1 |-> [j \in DOMAIN c1[i] |-> ClipBelow(c1[i][j])]]
        c3 == [i \in DOMAIN c2 |-> [j \in DOMAIN c2[i] |-> NanToZero(c2[i][j])]]
    IN  c3

Matrices(max) == UNION {[1..n -> Vectors] : n \in 1..max}

SimInit ==
    /\ seed_features \in Matrices(MaxSeeds)
    /\ target_features \in Matrices(MaxRows)
    /\ cosine_similarity = <<>>

\* a call of _cosine_similarity on the two matrices
CallCosineSimilarity ==
    /\ cosine_similarity = <<>>
    /\ cosine_similarity' = CosineSimilarity(seed_features, target_features)
    /\ UNCHANGED <<seed_features, target_features>>

SimNext == CallCosineSimilarity

SimIdle ==
    /\ seed_features = <<>>
    /\ target_features = <<>>
    /\ cosine_similarity = <<>>

WbIdle ==
    /\ fs = <<>>
    /\ tmpdirs = {}
    /\ exe = "workbench"
    /\ tmpbase = <<"/tmp">>
    /\ wb = FALSE
    /\ ncalls = 0
    /\ op = "none"
    /\ pc = "returned"
    /\ result = "none"
    /\ trace = <<>>
    /\ args = NoArgs
    /\ temp_dir = <<>>
    /\ index = 0
    /\ volume_files = <<>>
    /\ frame = NoFrame
    /\ checked = {}
    /\ out_at_call = -1

(* ------------------------------ FeatureData ---------------------------- *)
(* The four feature matrices are sequences of rows.  The weighted average   *)
(* is kept exact: the record [num, den] is the vector num / den.            *)
VARIABLES
    human_left,    \* self.human_left
    human_right,   \* self.human_right
    macaque_left,  \* self.macaque_left
    macaque_right, \* self.macaque_right
    weights,       \* feature_similarity: weights
    species,       \* feature_similarity: species
    fpc,           \* position in feature_similarity / run_neuroquery
    fresult,       \* "none", "ok" or the name of the raised exception
    user_feature,  \* feature_similarity: user_feature, <<>> before it is computed
    similarity,    \* feature_similarity: similarity, <<>> before it is computed
    returned,      \* the FeatureData returned, <<>> if none
    nq_metrics,    \* run_neuroquery: what the two metric files hold
    nq_surfaces    \* run_neuroquery: surfaces

selfvars == <<human_left, human_right, macaque_left, macaque_right>>
featvars == <<selfvars, weights, species, fpc, fresult, user_feature, similarity, returned,
              nq_metrics, nq_surfaces>>

HumanLefts == {<<<<1, 0>>>>, <<<<1, 2>>, <<0, 0>>>>}
HumanRights == {<<<<0, 1>>>>, <<<<3, 1>>, <<1, 1>>>>}
MacaqueLefts == {<<<<2, 1>>>>, <<<<-1, 0>>, <<1, 3>>>>}
MacaqueRights == {<<<<0, 2>>>>, <<<<1, -1>>, <<2, 2>>>>}
WeightValues == {-1, 0, 1, 2}

\* FeatureData(human_left, human_right, macaque_left, macaque_right)
FeatureData(hl, hr, ml, mr) ==
    [human_left |-> hl, human_right |-> hr, macaque_left |-> ml, macaque_right |-> mr]

Self == FeatureData(human_left, human_right, macaque_left, macaque_right)

\* FeatureData.human
Human(self) == self.human_left \o self.human_right
\* FeatureData.macaque
Macaque(self) == self.macaque_left \o self.macaque_right
\* FeatureData.all_data
AllData(self) == Human(self) \o Macaque(self)

\* variant: the right hemisphere comes first
SpeciesData_RightFirst(self, sp) ==
    IF sp = "human" THEN self.human_right \o self.human_left
    ELSE self.macaque_right \o self.macaque_left

\* getattr(self, species)
SpeciesData(self, sp) == IF sp = "human" THEN Human(self) ELSE Macaque(self)

RECURSIVE SumSeq(_)
SumSeq(w) == IF w = <<>> THEN 0 ELSE Head(w) + SumSeq(Tail(w))

Min(a, b) == IF a < b THEN a ELSE b

\* variant: weights and rows are paired up to the shorter of the two
Average_Truncating(a, w) ==
    LET n == Min(Len(a), Len(w))
        den == SumSeq(SubSeq(w, 1, n))
    IN  IF den = 0 THEN [err |-> "ZeroDivisionError", num |-> <<>>, den |-> 0]
        ELSE [err |-> "none",
              num |-> [d \in DOMAIN a[1] |-> SumSeq([k \in 1..n |-> w[k] * a[k][d]])],
              den |-> den]

\* np.average(a, weights=w, axis=0) of a 2-D a and a 1-D w: the lengths must
\* agree and the weights must not sum to zero
Average(a, w) ==
    IF Len(w) # Len(a) THEN [err |-> "ValueError", num |-> <<>>, den |-> 0]
    ELSE IF SumSeq(w) = 0 THEN [err |-> "ZeroDivisionError", num |-> <<>>, den |-> 0]
    ELSE [err |-> "none",
          num |-> [d \in DOMAIN a[1] |-> SumSeq([k \in DOMAIN a |-> w[k] * a[k][d]])],
          den |-> SumSeq(w)]

\* np.atleast_2d(user_feature) as the seed of the cosine: the cosine does not
\* change when the seed is scaled by |den| > 0, so the row is num with the
\* sign of den
Atleast2d(uf) == <<[d \in DOMAIN uf.num |-> IF uf.den > 0 THEN uf.num[d] ELSE -uf.num[d]]>>

\* ndarray.squeeze() of a matrix: axes of length one are dropped
Squeeze(m) ==
    IF Len(m) = 1 THEN (IF Len(m[1]) = 1 THEN m[1][1] ELSE m[1])
    ELSE m

\* similarity[a:b]
Slice(x, a, b) == SubSeq(x, a + 1, Min(b, Len(x)))

\* variant: the right hemisphere is taken to have as many rows as the left
SplitSimilarity_EqualHemispheres(x, self) ==
    LET nhl == Len(self.human_left)
        nml == Len(self.macaque_left)
    IN  FeatureData(Slice(x, 0, nhl), Slice(x, nhl, 2 * nhl),
                    Slice(x, 2 * nhl, 2 * nhl + nml), Slice(x, 2 * nhl + nml, Len(x)))

\* the four slices of the returned FeatureData
SplitSimilarity(x, self) ==
    LET nhl == Len(self.human_left)
        nh == Len(Human(self))
        nml == Len(self.macaque_left)
    IN  FeatureData(Slice(x, 0, nhl), Slice(x, nhl, nh),
                    Slice(x, nh, nh + nml), Slice(x, nh + nml, Len(x)))

FeatInit ==
    /\ human_left \in HumanLefts
    /\ human_right \in HumanRights
    /\ macaque_left \in MacaqueLefts
    /\ macaque_right \in MacaqueRights
    /\ weights \in UNION {[1..n -> WeightValues] : n \in 1..MaxWeights}
    /\ species \in {"human", "macaque"}
    /\ fpc = "called"
    /\ fresult = "none"
    /\ user_feature = <<>>
    /\ similarity = <<>>
    /\ returned = <<>>
    /\ nq_metrics = <<>>
    /\ nq_surfaces = <<>>

\* feature_similarity: species_data and the weighted average
FeatureAverage ==
    /\ fpc = "called"
    /\ LET avg == Average(SpeciesData(Self, species), weights)
       IN  IF avg.err # "none"
           THEN /\ fresult' = avg.err
                /\ fpc' = "raised"
                /\ user_feature' = user_feature
           ELSE /\ fresult' = fresult
                /\ fpc' = "averaged"
                /\ user_feature' = [num |-> avg.num, den |-> avg.den]
    /\ UNCHANGED <<selfvars, weights, species, similarity, returned, nq_metrics, nq_surfaces>>

\* feature_similarity: the cosine similarity against all_data, squeezed
FeatureCosine ==
    /\ fpc = "averaged"
    /\ similarity' = Squeeze(CosineSimilarity(Atleast2d(user_feature), AllData(Self)))
    /\ fpc' = "compared"
    /\ UNCHANGED <<selfvars, weights, species, fresult, user_feature, returned, nq_metrics,
                   nq_surfaces>>

\* variant: the segments are also stored in the object the method is called on
FeatureReturn_StoreInSelf ==
    /\ fpc = "compared"
    /\ returned' = SplitSimilarity(similarity, Self)
    /\ human_left' = returned'.human_left
    /\ human_right' = returned'.human_right
    /\ macaque_left' = returned'.macaque_left
    /\ macaque_right' = returned'.macaque_right
    /\ fresult' = "ok"
    /\ fpc' = "returned"
    /\ UNCHANGED <<weights, species, user_feature, similarity, nq_metrics, nq_surfaces>>

\* feature_similarity: the returned FeatureData
FeatureReturn ==
    /\ fpc = "compared"
    /\ returned' = SplitSimilarity(similarity, Self)
    /\ fresult' = "ok"
    /\ fpc' = "returned"
    /\ UNCHANGED <<selfvars, weights, species, user_feature, similarity, nq_metrics,
                   nq_surfaces>>

\* io.SurfaceFiles[f"{species.upper()}_LEFT" / "_RIGHT"]
SurfaceFile(sp, side) == <<sp, side>>

\* run_neuroquery(similarity, species, ...) up to multi_surface_to_volume: the
\* surfaces, and the two arrays written as metric files
RunNeuroquery ==
    /\ fpc = "returned"
    /\ nq_surfaces' = <<SurfaceFile(species, "left"), SurfaceFile(species, "right")>>
    /\ nq_metrics' = <<[attr |-> "human_left", data |-> returned.human_left],
                       [attr |-> "human_right", data |-> returned.human_right]>>
    /\ fpc' = "projecting"
    /\ UNCHANGED <<selfvars, weights, species, fresult, user_feature, similarity, returned>>

FeatNext ==
    \/ FeatureAverage
    \/ FeatureCosine
    \/ FeatureReturn
    \/ RunNeuroquery

FeatIdle ==
    /\ human_left = <<>>
    /\ human_right = <<>>
    /\ macaque_left = <<>>
    /\ macaque_right = <<>>
    /\ weights = <<>>
    /\ species = "human"
    /\ fpc = "idle"
    /\ fresult = "none"
    /\ user_feature = <<>>
    /\ similarity = <<>>
    /\ returned = <<>>
    /\ nq_metrics = <<>>
    /\ nq_surfaces = <<>>

(* --------------------------- the feature store ------------------------- *)
VARIABLES
    store,     \* the four feature files: what h5py finds at each path
    lpc,       \* position in from_data_dir
    loaded,    \* the arrays loaded so far, in the order of the calls
    lresult,   \* "none", "ok" or the name of the raised exception
    lreturned  \* the FeatureData returned, <<>> if none

loadvars == <<store, lpc, loaded, lresult, lreturned>>

\* FeatureFiles, in the order from_data_dir loads them
FeatureFiles == <<"HUMAN_LEFT", "HUMAN_RIGHT", "MACAQUE_LEFT", "MACAQUE_RIGHT">>

\* the matrices a well-formed file of each name may hold in its dataset "data"
Datasets(name) ==
    CASE name = "HUMAN_LEFT" -> HumanLefts
      [] name = "HUMAN_RIGHT" -> HumanRights
      [] name = "MACAQUE_LEFT" -> MacaqueLefts
      [] name = "MACAQUE_RIGHT" -> MacaqueRights

\* what may be at the path of a feature file: nothing, a file that is not
\* HDF5, an HDF5 file without the dataset "data", or one with it
FileStates(name) ==
    {[kind |-> k, data |-> <<>>] : k \in {"missing", "not_hdf5", "no_dataset"}}
        \cup {[kind |-> "ok", data |-> m] : m \in Datasets(name)}

\* load_from_h5(filepath): h5py.File(filepath, "r") raises FileNotFoundError
\* for a missing file and OSError for a file it cannot open; h5["data"] raises
\* KeyError when the file has no such dataset
LoadFromH5(file) ==
    CASE file.kind = "missing" -> [err |-> "FileNotFoundError", data |-> <<>>]
      [] file.kind = "not_hdf5" -> [err |-> "OSError", data |-> <<>>]
      [] file.kind = "no_dataset" -> [err |-> "KeyError", data |-> <<>>]
      [] file.kind = "ok" -> [err |-> "none", data |-> Squeeze(file.data)]

LoadInit ==
    /\ store \in [{FeatureFiles[i] : i \in DOMAIN FeatureFiles} ->
                     UNION {FileStates(FeatureFiles[i]) : i \in DOMAIN FeatureFiles}]
    /\ \A i \in DOMAIN FeatureFiles : store[FeatureFiles[i]] \in FileStates(FeatureFiles[i])
    /\ lpc = "loading"
    /\ loaded = <<>>
    /\ lresult = "none"
    /\ lreturned = <<>>

\* from_data_dir: the next load_from_h5 call
LoadNext ==
    /\ lpc = "loading"
    /\ Len(loaded) < Len(FeatureFiles)
    /\ LET got == LoadFromH5(store[FeatureFiles[Len(loaded) + 1]])
       IN  IF got.err # "none"
           THEN /\ lresult' = got.err
                /\ lpc' = "raised"
                /\ loaded' = loaded
           ELSE /\ loaded' = Append(loaded, got.data)
                /\ UNCHANGED <<lresult, lpc>>
    /\ UNCHANGED <<store, lreturned>>

\* from_data_dir: return cls(human_left, human_right, macaque_left, macaque_right)
FromDataDirReturn ==
    /\ lpc = "loading"
    /\ Len(loaded) = Len(FeatureFiles)
    /\ lreturned' = FeatureData(loaded[1], loaded[2], loaded[3], loaded[4])
    /\ lresult' = "ok"
    /\ lpc' = "returned"
    /\ UNCHANGED <<store, loaded>>

FromDataDir == LoadNext \/ FromDataDirReturn

LoadIdle ==
    /\ store = <<>>
    /\ lpc = "idle"
    /\ loaded = <<>>
    /\ lresult = "none"
    /\ lreturned = <<>>

(* ------------------- two calls whose steps interleave ------------------ *)
(* The call that takes the next step has its arguments and locals in the    *)
(* variables of the sequential model; those of the other call are parked in *)
(* other.  The files, the temporary directories and the executable are      *)
(* shared.                                                                  *)
VARIABLES
    active,  \* the call whose locals are in op, pc, ..., out_at_call: "a" or "b"
    other    \* the locals of the other call

concvars == <<active, other>>

\* the arguments and locals of the call that is in the variables
Current ==
    [op |-> op, pc |-> pc, result |-> result, trace |-> trace, args |-> args,
     temp_dir |-> temp_dir, index |-> index, volume_files |-> volume_files,
     frame |-> frame, checked |-> checked, out_at_call |-> out_at_call]

\* a call that has not started
NotStarted ==
    [op |-> "none", pc |-> "returned", result |-> "none", trace |-> <<>>, args |-> NoArgs,
     temp_dir |-> <<>>, index |-> 0, volume_files |-> <<>>, frame |-> NoFrame,
     checked |-> {}, out_at_call |-> -1]

\* the scheduler lets the other call take the next steps
Switch ==
    /\ active' = IF active = "a" THEN "b" ELSE "a"
    /\ other' = Current
    /\ op' = other.op
    /\ pc' = other.pc
    /\ result' = other.result
    /\ trace' = other.trace
    /\ args' = other.args
    /\ temp_dir' = other.temp_dir
    /\ index' = other.index
    /\ volume_files' = other.volume_files
    /\ frame' = other.frame
    /\ checked' = other.checked
    /\ out_at_call' = other.out_at_call
    /\ UNCHANGED <<fs, tmpdirs, exe, tmpbase, wb, ncalls>>

\* multi_surface_to_volume on n metrics and surfaces, with an output path
\* the other call does not use
CallMultiDistinct(n, out) ==
    /\ out # other.args.volume_out
    /\ CallMulti(n, n, out)

\* a step of the call that is in the variables
CurrentStep ==
    \/ \E n \in 1..MaxN, out \in OutPaths : CallMultiDistinct(n, out)
    \/ LenCheck
    \/ Probe
    \/ MkTemp
    \/ Loop
    \/ ExitWith
    \/ SurfaceToVolumeCheck
    \/ SurfaceToVolumeRun
    \/ VolumeMathCheck
    \/ VolumeMathRun

ConcInit ==
    /\ \E old \in SUBSET OldOutPaths : fs = [f \in InputPaths \cup old |-> 0]
    /\ tmpdirs = {}
    /\ exe \in {"workbench", "wrong_binary", "missing"}
    /\ tmpbase = <<"/tmp">>
    /\ wb = FALSE
    /\ ncalls = 0
    /\ op = "none"
    /\ pc = "returned"
    /\ result = "none"
    /\ trace = <<>>
    /\ args = NoArgs
    /\ temp_dir = <<>>
    /\ index = 0
    /\ volume_files = <<>>
    /\ frame = NoFrame
    /\ checked = {}
    /\ out_at_call = -1
    /\ active = "a"
    /\ other = NotStarted

ConcNext ==
    \/ CurrentStep /\ UNCHANGED concvars
    \/ Switch

ConcIdle ==
    /\ active = "a"
    /\ other = NotStarted

(* --------------------------- specifications ---------------------------- *)
vars == <<wbvars, simvars, featvars, loadvars, concvars>>

\* the Workbench adapter and the projection
Init == WbInit /\ SimIdle /\ FeatIdle /\ LoadIdle /\ ConcIdle
Next == WbNext /\ UNCHANGED <<simvars, featvars, loadvars, concvars>>
Spec == Init /\ [][Next]_vars

\* the cosine similarity on bounded inputs
InitSim == WbIdle /\ SimInit /\ FeatIdle /\ LoadIdle /\ ConcIdle
NextSim == SimNext /\ UNCHANGED <<wbvars, featvars, loadvars, concvars>>
SpecSim == InitSim /\ [][NextSim]_vars

\* feature_similarity and run_neuroquery on bounded inputs
InitFeat == WbIdle /\ SimIdle /\ FeatInit /\ LoadIdle /\ ConcIdle
NextFeat == FeatNext /\ UNCHANGED <<wbvars, simvars, loadvars, concvars>>
SpecFeat == InitFeat /\ [][NextFeat]_vars

\* FeatureData.from_data_dir on every state of the four feature files
InitLoad == WbIdle /\ SimIdle /\ FeatIdle /\ LoadInit /\ ConcIdle
NextLoad == FromDataDir /\ UNCHANGED <<wbvars, simvars, featvars, concvars>>
SpecLoad == InitLoad /\ [][NextLoad]_vars

\* two multi_surface_to_volume calls, interleaved step by step
InitConc == ConcInit /\ SimIdle /\ FeatIdle /\ LoadIdle
NextConc == ConcNext /\ UNCHANGED <<simvars, featvars, loadvars>>
SpecConc == InitConc /\ [][NextConc]_vars

(* ------------------------------ helpers -------------------------------- *)
EventsOf(t) == SelectSeq(trace, LAMBDA e : e.t = t)
Runs == EventsOf("run")
Errors == EventsOf("error")
Returned == pc = "returned" /\ op # "none"
Mismatch == Len(args.metrics) # Len(args.surfaces)

(* ------------------------------- claims -------------------------------- *)
\* C1: multi_surface_to_volume with len(metrics) # len(surfaces) raises
\* ValueError after exactly one error log, with no process run (no version
\* probe) and no temporary directory created.
C1_MismatchRaisesBeforeAnyCall ==
    (op = "multi" /\ Mismatch /\ pc # "len_check") =>
        /\ pc = "returned"
        /\ result = "ValueError"
        /\ trace = <<LogError("The number of metrics and surfaces must be equal.", <<>>)>>
        /\ Runs = <<>>
        /\ EventsOf("mkdtemp") = <<>>
        /\ tmpdirs = {}

C1_Witness ==
    op = "multi" /\ Len(args.metrics) = 1 /\ Len(args.surfaces) = 2 /\ Returned
       /\ result = "ValueError"

\* C2 as stated: an adapter operation called with an existing output file
\* raises FileExistsError, logs exactly one error and runs no process.
C2_Original ==
    (op \in {"s2v", "vmath"} /\ Returned /\ out_at_call # -1) =>
        /\ result = "FileExistsError"
        /\ Len(Errors) = 1
        /\ Runs = <<>>

InputsExist == Exists(frame.metric) /\ Exists(frame.surface) /\ Exists(frame.volume_space)

\* C2 amended: an adapter operation called with an existing output file
\* raises, logs exactly one error and runs no process; the error is
\* FileExistsError for volume_math, and for surface_to_volume when metric,
\* surface and volume_space exist, else the FileNotFoundError of a missing input.
C2_ExistingOutputRaisesWithoutProcess ==
    (op \in {"s2v", "vmath"} /\ Returned /\ out_at_call # -1) =>
        /\ Len(Errors) = 1
        /\ Runs = <<>>
        /\ TagOf(frame.volume_out) = out_at_call
        /\ result = IF op = "vmath" \/ InputsExist THEN "FileExistsError" ELSE "FileNotFoundError"
        /\ result = "FileExistsError" => Errors[1] = LogError("FileExistsError", frame.volume_out)

C2_Witness ==
    op = "s2v" /\ Returned /\ out_at_call # -1 /\ InputsExist /\ result = "FileExistsError"

FirstMissing ==
    IF ~Exists(frame.metric) THEN frame.metric
    ELSE IF ~Exists(frame.surface) THEN frame.surface
    ELSE frame.volume_space

\* C3: surface_to_volume with a missing metric, surface or volume_space
\* raises FileNotFoundError for the first missing one in that order, with
\* exactly one error log and without running a process.
C3_MissingInputRaisesInOrder ==
    [][(pc = "s2v_check" /\ ~InputsExist) =>
          /\ result' = "FileNotFoundError"
          /\ pc' \in {"returned", "exit_with"}
          /\ trace' = trace \o <<LogInfo("Converting surface to volume", frame.surface),
                                 LogError("FileNotFoundError", FirstMissing)>>
          /\ fs' = fs]_vars

C3_Witness ==
    /\ op = "s2v" /\ Returned /\ result = "FileNotFoundError"
    /\ Exists(frame.metric) /\ ~Exists(frame.surface) /\ ~Exists(frame.volume_space)
    /\ Len(Errors) = 1 /\ Errors[1].text = frame.surface

UnderTemp(f) == IsPrefix(tmpbase, f)

\* C4: whenever multi_surface_to_volume has returned, by success or by any
\* error, every temporary directory it made is removed and no intermediate
\* volume is left.
C4_TempStateRemovedOnReturn ==
    pc = "returned" =>
        /\ tmpdirs = {}
        /\ \A f \in DOMAIN fs : ~UnderTemp(f)
        /\ Len(EventsOf("rmtree")) = Len(EventsOf("mkdtemp"))

C4_Witness ==
    /\ op = "multi" /\ Returned /\ result = "CalledProcessError" /\ ncalls = 2
    /\ \E k \in DOMAIN trace : trace[k].t = "run" /\ trace[k].msg = "nonzero"
                                  /\ Len(trace[k].argv) > 2
    /\ EventsOf("rmtree") # <<>>

IsMapping(e) == e.t = "run" /\ e.argv[2] = <<"-metric-to-volume-mapping">>
IsVolumeMath(e) == e.t = "run" /\ e.argv[2] = <<"-volume-math">>
IsProbe(e) == e.t = "run" /\ e.argv[2] = <<"-version">>

\* C5: once the process of a surface-to-volume mapping of a projection has
\* exited non-zero, no further process is run (no later mapping, no volume
\* math, no retry), the call ends in CalledProcessError and the output file is
\* as it was when the call started.
C5_FailedMappingAbortsProjection ==
    op = "multi" =>
        \A k \in DOMAIN trace :
            (IsMapping(trace[k]) /\ trace[k].msg = "nonzero") =>
                /\ \A j \in (k + 1)..Len(trace) : trace[j].t # "run"
                /\ pc \in {"exit_with", "returned"}
                /\ result = "CalledProcessError"
                /\ TagOf(args.volume_out) = out_at_call

C5_Witness ==
    /\ op = "multi" /\ Returned /\ Len(args.metrics) = 2 /\ out_at_call = -1
    /\ Len(Runs) = 2 /\ IsMapping(Runs[2]) /\ Runs[2].msg = "nonzero"

\* C6: a successful projection of N pairs has run exactly N + 2 processes:
\* the version probe, then for i = 0..N-1 the mapping of metrics[i] on
\* surfaces[i] into volume_i of the temporary directory, then one volume math.
C6_SuccessfulCallRunsInOrder ==
    (op = "multi" /\ Returned /\ result = "ok") =>
        LET n == Len(args.metrics)
            d == EventsOf("mkdtemp")[1].text
        IN  /\ Len(Runs) = n + 2
            /\ Runs[1].argv = <<Executable, <<"-version">>>>
            /\ \A i \in 0..(n - 1) :
                 Runs[i + 2].argv =
                    <<Executable, <<"-metric-to-volume-mapping">>, args.metrics[i + 1],
                      args.surfaces[i + 1], args.volume_space,
                      d \o <<"/", "volume_" \o ToString(i) \o ".nii.gz">>,
                      <<"-nearest-vertex">>, <<"3.0">>>>
            /\ IsVolumeMath(Runs[n + 2])
            /\ Runs[n + 2].argv[4] = args.volume_out
            /\ \A k \in 1..(n + 2) : Runs[k].msg = "zero"

C6_Witness ==
    op = "multi" /\ Returned /\ result = "ok" /\ Len(args.metrics) = 2 /\ Len(Runs) = 4

ExpectedExpression(n) ==
    CASE n = 0 -> <<"(", ")", SP, "/", SP, "0">>
      [] n = 1 -> <<"(", "x0", ")", SP, "/", SP, "1">>
      [] n = 2 -> <<"(", "x0", SP, "+", SP, "x1", ")", SP, "/", SP, "2">>
      [] OTHER -> <<"(", "x0", SP, "+", SP, "x1", SP, "+", SP, "x2", ")", SP, "/", SP, "3">>

\* C7: the volume-math command line carries the expression
\* (x0 + ... + x(N-1)) / N and, after the output path, for i = 0..N-1 in
\* order the three arguments -var, xi and the i-th volume file: N bindings,
\* each variable bound once to its own volume.
C7_VolumeMathBindsEachVolume ==
    \A k \in DOMAIN trace :
        IsVolumeMath(trace[k]) =>
            LET a == trace[k].argv
                n == Len(frame.volume_files)
            IN  /\ a[3] = ExpectedExpression(n)
                /\ a[4] = frame.volume_out
                /\ Len(a) = 4 + 3 * n
                /\ \A i \in 0..(n - 1) :
                      /\ a[5 + 3 * i] = <<"-var">>
                      /\ a[6 + 3 * i] = <<"x" \o ToString(i)>>
                      /\ a[7 + 3 * i] = frame.volume_files[i + 1]

\* C8: a version probe that does not end with exit status zero (executable
\* missing, wrong binary, non-zero exit) makes the construction raise
\* RuntimeError after logging "Workbench not available."; a probe that exits
\* zero lets the construction succeed.
C8_FailedProbeRaisesRuntimeError ==
    \A k \in DOMAIN trace :
        IsProbe(trace[k]) =>
            IF trace[k].msg = "zero"
            THEN (op = "ctor" /\ Returned) => (result = "ok" /\ wb)
            ELSE /\ pc = "returned"
                 /\ result = "RuntimeError"
                 /\ Errors = <<LogError("Workbench not available.", <<>>)>>

\* an external process is only started on an output path that did not exist
\* when the adapter method checked it; a projection whose output existed at
\* the call never runs volume math and leaves that file as it was
NoOverwrite ==
    /\ pc \in {"s2v_run", "vm_run"} => (frame.volume_out \notin checked /\ ~Exists(frame.volume_out))
    /\ (op = "multi" /\ out_at_call # -1) =>
          /\ TagOf(args.volume_out) = out_at_call
          /\ \A k \in DOMAIN trace : ~IsVolumeMath(trace[k])

\* C9 as stated: no output is overwritten, and a projection whose output file
\* exists when it is called ends in FileExistsError.
C9_Original ==
    /\ NoOverwrite
    /\ (op = "multi" /\ Returned /\ out_at_call # -1) => result = "FileExistsError"

MappingsDone == Len(SelectSeq(trace, LAMBDA e : IsMapping(e) /\ e.msg = "zero"))

\* C9 amended, state part: no output is overwritten; a projection whose output file
\* exists when it is called ends in an error, never runs volume math and
\* leaves the file unchanged; the error is FileExistsError exactly when the
\* length check, the version probe and all N mappings succeeded, otherwise
\* it is the error of the step that failed first.
C9_AfterStep ==
    /\ NoOverwrite
    /\ (op = "multi" /\ Returned /\ out_at_call # -1) =>
          /\ result \in {"ValueError", "RuntimeError", "OSError", "FileNotFoundError",
                         "CalledProcessError", "FileExistsError"}
          /\ result = "FileExistsError" <=>
                (~Mismatch /\ MappingsDone = Len(args.metrics)
                    /\ \E k \in DOMAIN trace : IsProbe(trace[k]) /\ trace[k].msg = "zero")
          /\ result = "FileExistsError" =>
                Errors = <<LogError("FileExistsError", args.volume_out)>>

\* C9 amended, as a property of every step: the content of a file that
\* exists before the step and after it is not changed by the step, and the
\* state reached satisfies the statement above.
C9_NoImplicitOverwrite ==
    [][/\ \A f \in DOMAIN fs : f \in DOMAIN fs' => fs'[f] = fs[f]
       /\ C9_AfterStep']_vars

C9_Witness ==
    /\ op = "multi" /\ Returned /\ out_at_call = 1 /\ result = "FileExistsError"
    /\ Len(args.metrics) = 2 /\ Len(Runs) = 3

InBand(x) == x.k # "nan" /\ ~MagnitudeAbove(x, Threshold)
IsUnit(u) == Dot(u, u) = 1

\* C10: every entry returned by _cosine_similarity lies in [-0.9999, 0.9999]
\* and is never +1 or -1; an entry whose unclipped cosine exceeds 0.9999 is
\* exactly 0.9999 (identical unit vectors give 0.9999), one below -0.9999 is
\* exactly -0.9999, one inside the band is returned unchanged (orthogonal
\* vectors give 0).
C10_SimilarityClipped ==
    cosine_similarity # <<>> =>
        \A i \in DOMAIN seed_features : \A j \in DOMAIN target_features :
            LET u == seed_features[i]
                v == target_features[j]
                raw == Cosine(u, v)
                x == cosine_similarity[i][j]
            IN  /\ InBand(x)
                /\ ~(x.k = "cos" /\ x.num * x.num = x.uu * x.vv)
                /\ ~(x.k = "lit" /\ x.num \in {Scale, -Scale})
                /\ Above(raw, Threshold) => x = Lit(9999)
                /\ Below(raw, Threshold) => x = Lit(-9999)
                /\ InBand(raw) => x = raw
                /\ (u = v /\ IsUnit(u)) => x = Lit(9999)
                /\ (raw.k = "cos" /\ Dot(u, v) = 0) => (x.k = "cos" /\ x.num = 0)

C10_Witness ==
    /\ cosine_similarity # <<>>
    /\ seed_features = <<<<1, 0>>>>
    /\ target_features = <<<<71, 1>>, <<70, 1>>>>
    /\ cosine_similarity[1][1] = Lit(9999)
    /\ cosine_similarity[1][2] = Cos(70, 1, 4901)

IsZeroVector(u) == \A d \in DOMAIN u : u[d] = 0

\* C11: an entry of the returned similarity whose seed row or target row has
\* norm zero is exactly 0: its quotient is not a number, the two clipping
\* steps leave it not a number, and the last step replaces it by 0; no
\* returned entry is not a number.
C11_ZeroNormGivesZero ==
    cosine_similarity # <<>> =>
        \A i \in DOMAIN seed_features : \A j \in DOMAIN target_features :
            LET u == seed_features[i]
                v == target_features[j]
            IN  /\ cosine_similarity[i][j].k # "nan"
                /\ (IsZeroVector(u) \/ IsZeroVector(v)) =>
                      /\ Cosine(u, v).k = "nan"
                      /\ ClipBelow(ClipAbove(Cosine(u, v))).k = "nan"
                      /\ cosine_similarity[i][j] = Lit(0)

C11_Witness ==
    /\ cosine_similarity # <<>>
    /\ seed_features = <<<<0, 0>>>>
    /\ target_features = <<<<1, 1>>, <<0, 0>>>>
    /\ cosine_similarity = <<<<Lit(0), Lit(0)>>>>

(* -------------------- feature_similarity: C12 .. C14 ------------------- *)
\* vertex_count(species left) + vertex_count(species right)
VertexCount ==
    IF species = "human" THEN Len(human_left) + Len(human_right)
    ELSE Len(macaque_left) + Len(macaque_right)

\* the rows of the selected species, left then right
SelectedRows == IF species = "human" THEN human_left \o human_right
                ELSE macaque_left \o macaque_right

\* the rows of the reference matrix, in the fixed order
ReferenceRows == human_left \o human_right \o macaque_left \o macaque_right

FeatureCalled == fpc \notin {"idle", "called"}

\* C12: once feature_similarity has acted on a weight vector whose length is
\* not the species' left + right vertex count, the call has raised ValueError,
\* and no weighted vector, no similarity and no result object exist.
C12_WrongLengthRaisesWithoutComputation ==
    (FeatureCalled /\ Len(weights) # VertexCount) =>
        /\ fpc = "raised"
        /\ fresult = "ValueError"
        /\ user_feature = <<>>
        /\ similarity = <<>>
        /\ returned = <<>>

C12_Witness ==
    /\ fpc = "raised"
    /\ fresult = "ValueError"
    /\ species = "macaque"
    /\ Len(weights) > VertexCount
    /\ returned = <<>>

\* C13: the returned FeatureData holds, in the order human_left, human_right,
\* macaque_left, macaque_right, segments as long as the four feature matrices,
\* their concatenation is the flat similarity vector, and that vector has one
\* entry per row of the reference matrix: the clipped cosine of the weighted
\* vector and that row.
C13_SegmentsRoundTrip ==
    fpc \in {"returned", "projecting"} =>
        /\ Len(returned.human_left) = Len(human_left)
        /\ Len(returned.human_right) = Len(human_right)
        /\ Len(returned.macaque_left) = Len(macaque_left)
        /\ Len(returned.macaque_right) = Len(macaque_right)
        /\ returned.human_left \o returned.human_right
             \o returned.macaque_left \o returned.macaque_right = similarity
        /\ Len(similarity) = Len(ReferenceRows)
        /\ \A j \in DOMAIN ReferenceRows :
              similarity[j] =
                  NanToZero(ClipBelow(ClipAbove(
                      Cosine(Atleast2d(user_feature)[1], ReferenceRows[j]))))

C13_Witness ==
    /\ fpc = "returned"
    /\ species = "macaque"
    /\ Len(human_left) = 2
    /\ Len(human_right) = 1
    /\ Len(macaque_left) = 1
    /\ Len(macaque_right) = 2
    /\ weights = <<1, 2, -1>>
    /\ Len(returned.human_left) = 2
    /\ Len(returned.macaque_right) = 2

RECURSIVE WeightedSum(_, _, _, _)
\* w[1] * rows[1][d] + ... + w[n] * rows[n][d]
WeightedSum(rows, w, d, n) ==
    IF n = 0 THEN 0 ELSE WeightedSum(rows, w, d, n - 1) + w[n] * rows[n][d]

AllOnes(w) == \A k \in DOMAIN w : w[k] = 1

\* C14: the weighted vector num / den is, per feature dimension, the weighted
\* arithmetic mean of the selected species' rows taken left then right, with
\* weights[k] on row k: den is the sum of the weights and num the weighted
\* sum.  With all weights one, den is the number of those rows and num their
\* plain sum.  No row of the other species occurs in it.
C14_WeightedMeanOfSelectedRows ==
    user_feature # <<>> =>
        /\ Len(weights) = Len(SelectedRows)
        /\ user_feature.den = WeightedSum([k \in DOMAIN weights |-> <<1>>], weights, 1,
                                          Len(weights))
        /\ user_feature.den # 0
        /\ DOMAIN user_feature.num = 1..2
        /\ \A d \in 1..2 :
              user_feature.num[d] = WeightedSum(SelectedRows, weights, d, Len(weights))
        /\ AllOnes(weights) =>
              /\ user_feature.den = Len(SelectedRows)
              /\ \A d \in 1..2 :
                    user_feature.num[d] =
                        WeightedSum(SelectedRows, [k \in DOMAIN weights |-> 1], d,
                                    Len(SelectedRows))

C14_Witness ==
    /\ fpc = "averaged"
    /\ species = "human"
    /\ human_left = <<<<1, 2>>, <<0, 0>>>>
    /\ human_right = <<<<3, 1>>, <<1, 1>>>>
    /\ weights = <<2, 1, 1, 0>>
    /\ user_feature = [num |-> <<5, 5>>, den |-> 4]

(* ---------------------- C18, C19: species and frame -------------------- *)
\* the segment of a FeatureData for a species and a side
Segment(fd, sp, side) ==
    IF sp = "human" THEN (IF side = "left" THEN fd.human_left ELSE fd.human_right)
    ELSE (IF side = "left" THEN fd.macaque_left ELSE fd.macaque_right)

\* C18: the two metric files run_neuroquery writes hold the left and right
\* similarity segments of the given species, paired in order with the left
\* and right surfaces of that species.
C18_MetricsFollowSpecies ==
    fpc = "projecting" =>
        /\ nq_surfaces = <<SurfaceFile(species, "left"), SurfaceFile(species, "right")>>
        /\ nq_metrics = <<[attr |-> species \o "_left",
                           data |-> Segment(returned, species, "left")],
                          [attr |-> species \o "_right",
                           data |-> Segment(returned, species, "right")]>>

\* what feature_similarity returns for the inputs of the current state
ResultOfInputs ==
    LET avg == Average(SpeciesData(Self, species), weights)
    IN  SplitSimilarity(Squeeze(CosineSimilarity(Atleast2d(avg), AllData(Self))), Self)

\* C19: no step of feature_similarity, in a successful or a failing call,
\* changes the four feature matrices, the weights, the species or any state of
\* the external-tool adapter (no file, no process, no log), and the value it
\* returns is determined by those inputs alone.
C19_FeatureSimilarityIsPure ==
    [][/\ UNCHANGED <<selfvars, weights, species>>
       /\ UNCHANGED wbvars
       /\ (fpc' = "returned" /\ fpc = "compared") => returned' = ResultOfInputs]_vars

C19_Witness ==
    /\ fpc = "returned"
    /\ fresult = "ok"
    /\ human_left = <<<<1, 2>>, <<0, 0>>>>
    /\ weights = <<1, -1, 2>>
    /\ returned = ResultOfInputs
    /\ trace = <<>>

(* ------------------------- C15, C16: the log --------------------------- *)
\* C15: a call that ended in an error has logged that error where it was
\* detected, before raising it: an error record is in the log of the call and
\* no process was started after it.
C15_EveryErrorIsLogged ==
    (Returned /\ result # "ok") =>
        \E k \in DOMAIN trace :
            /\ trace[k].t = "error"
            /\ \A l \in DOMAIN trace : l > k => trace[l].t # "run"

\* C16: every process the adapter starts (version probe, mapping, volume math)
\* directly follows the log record of its full command line, so no process
\* starts without that record and the record comes first.
C16_CommandLoggedBeforeRun ==
    \A k \in DOMAIN trace :
        trace[k].t = "run" =>
            /\ k > 1
            /\ trace[k - 1] = LogInfo("Running command", Join(trace[k].argv, <<SP>>))

C16_Witness ==
    /\ Returned
    /\ op = "multi"
    /\ result = "ok"
    /\ \E i, j, k \in DOMAIN trace :
          /\ i < j /\ j < k
          /\ IsProbe(trace[i])
          /\ IsMapping(trace[j])
          /\ IsVolumeMath(trace[k])
          /\ trace[k - 1] = LogInfo("Running command", Join(trace[k].argv, <<SP>>))

(* ----------------------- C17: loading the features --------------------- *)
IOErrorClass == {"OSError", "FileNotFoundError"}

Unloadable(name) == store[name].kind \in {"missing", "no_dataset"}

\* C17: when one of the four feature files is missing, or exists without the
\* dataset "data", from_data_dir ends in an error of the IOError class and
\* returns no FeatureData.
C17_LoadFailsWithIOError ==
    (lpc \in {"raised", "returned"}
        /\ \E i \in DOMAIN FeatureFiles : Unloadable(FeatureFiles[i])) =>
        /\ lresult \in IOErrorClass
        /\ lreturned = <<>>

(* ---------------------- C20: two interleaved calls --------------------- *)
\* the paths under the directory d that exist
FilesUnder(d, files) == {f \in DOMAIN files : IsPrefix(d, f)}

\* a step of the running call leaves the temporary directory of the other
\* call alone: the directory stays, no file under it appears, disappears or
\* changes, and no process the step starts is given a path under it
LeavesAlone(d) ==
    /\ d \in tmpdirs => d \in tmpdirs'
    /\ FilesUnder(d, fs') = FilesUnder(d, fs)
    /\ \A f \in FilesUnder(d, fs) : fs'[f] = fs[f]
    /\ \A k \in (Len(trace) + 1)..Len(trace') :
          /\ trace'[k].t = "run" =>
                \A a \in DOMAIN trace'[k].argv : ~IsPrefix(d, trace'[k].argv[a])
          /\ trace'[k].t = "rmtree" => trace'[k].text # d

AllProcessesSucceeded(c) ==
    \A k \in DOMAIN c.trace : c.trace[k].t = "run" => c.trace[k].msg = "zero"

\* how a call may end: an output-already-exists error only if the output
\* existed when the call started, and success if every process succeeded
EndsWell(c) ==
    (c.op = "multi" /\ c.pc = "returned") =>
        /\ c.result = "FileExistsError" => c.out_at_call # -1
        /\ (AllProcessesSucceeded(c) /\ c.out_at_call = -1) => c.result = "ok"

\* C20: of two multi_surface_to_volume calls with distinct outputs whose steps
\* interleave, the temporary directories are distinct while both exist, no
\* step of one call reads, writes or deletes a path under the temporary
\* directory of the other, neither ends in an output-already-exists error for
\* an output that did not exist when it started, and each ends successfully
\* when all its processes succeed.
C20_InterleavedCallsAreIsolated ==
    [][/\ (temp_dir' # <<>> /\ other'.temp_dir # <<>>) => temp_dir' # other'.temp_dir
       /\ (active' = active /\ other.temp_dir # <<>>) => LeavesAlone(other.temp_dir)
       /\ EndsWell(Current)'
       /\ EndsWell(other)']_vars

C20_Witness ==
    /\ op = "multi" /\ other.op = "multi"
    /\ pc = "vm_run" /\ other.pc = "s2v_run"
    /\ temp_dir # <<>> /\ other.temp_dir # <<>>
    /\ FilesUnder(temp_dir, fs) # {}
    /\ FilesUnder(other.temp_dir, fs) # {}
    /\ args.volume_out # other.args.volume_out

(* -------------------- C21: the intermediate volumes -------------------- *)
\* the temporary directories the call has created, in order
DirsMade == [k \in DOMAIN EventsOf("mkdtemp") |-> EventsOf("mkdtemp")[k].text]

\* the mapping processes of the call that exited with status zero
CompletedMappings == SelectSeq(trace, LAMBDA e : IsMapping(e) /\ e.msg = "zero")

\* C21: in a multi_surface_to_volume call the call has created at most one
\* temporary directory, empty when created; volume_files holds, in index
\* order, the output volume_i of the i-th completed mapping, all under that
\* directory and pairwise distinct; no output-must-not-exist check fails for
\* a path under the directory; and volume math is entered and run with
\* exactly N volumes.
C21_IntermediateVolumesDistinctAndOwned ==
    op = "multi" =>
        /\ Len(DirsMade) <= 1
        /\ temp_dir # <<>> => DirsMade = <<temp_dir>>
        /\ (pc = "loop" /\ index = 0) => FilesUnder(temp_dir, fs) = {}
        /\ volume_files # <<>> => Len(DirsMade) = 1
        /\ Len(volume_files) = index
        /\ Len(volume_files) = Len(CompletedMappings)
        /\ \A i \in DOMAIN volume_files :
              /\ volume_files[i] = VolumeFile(DirsMade[1], i - 1)
              /\ volume_files[i] = CompletedMappings[i].argv[6]
              /\ IsPrefix(DirsMade[1], volume_files[i])
              /\ \A j \in DOMAIN volume_files : i # j => volume_files[i] # volume_files[j]
        /\ \A k \in DOMAIN trace :
              (trace[k].t = "error" /\ trace[k].msg = "FileExistsError") =>
                  /\ trace[k].text = args.volume_out
                  /\ \A d \in DOMAIN DirsMade : ~IsPrefix(DirsMade[d], trace[k].text)
        /\ pc \in {"vm_check", "vm_run"} =>
              /\ Len(frame.volume_files) = Len(args.metrics)
              /\ frame.volume_files = volume_files
        /\ \A k \in DOMAIN trace :
              IsVolumeMath(trace[k]) => Len(volume_files) = Len(args.metrics)

C21_Witness ==
    /\ op = "multi"
    /\ pc = "vm_run"
    /\ exe = "workbench"
    /\ Len(args.metrics) = 2
    /\ volume_files = <<VolumeFile(temp_dir, 0), VolumeFile(temp_dir, 1)>>
    /\ Exists(volume_files[1]) /\ Exists(volume_files[2])
    /\ frame.volume_files = volume_files

====
